---- MODULE Spec2Model ----
(***************************************************************************)
(* A model of TextCorrector.py: approximate dictionary-based correction.   *)
(*                                                                         *)
(* Strings are sequences of one-character strings.  Offsets are Python's   *)
(* 0-based offsets; a span <<s, e>> is the slice text[s:e].  A threshold   *)
(* is a rational <<num, den>>; a score E / len(query) is kept as its       *)
(* numerator E (the raw edit cost) next to the query it belongs to, and    *)
(* "score <= threshold" is E * den <= num * len(query).                    *)
(***************************************************************************)
EXTENDS Integers, Sequences, FiniteSets, TLC

VARIABLES
    threshold,       \* self.threshold
    words,           \* self.words
    changed,         \* self.changed
    raised,          \* the exception the last load raised ("none" if none)
    pc,              \* where the caller stands: "idle", "loop", "done", or a unit step
    text,            \* the argument of the correct call in progress
    corrected_text,  \* correct's local corrected_text (the text given to find)
    qi,              \* number of vocabulary words correct has processed
    query,           \* the query of the last find / choose_positions / add_positions
    found,           \* the set find returned
    chosen,          \* the list choose_positions returned
    before,          \* self.changed as it was when add_positions was entered
    regions,         \* the padded replacements spliced so far: <<start, end, word>>
    hit,             \* the regions the last chosen spans intersected
    result,          \* what correct returned
    stale            \* whether self.changed was non-empty when correct was entered

vars == <<threshold, words, changed, raised, pc, text, corrected_text, qi, query,
          found, chosen, before, regions, hit, result, stale>>

----------------------------------------------------------------------------
(* Bounds of the model. *)

MaxTextLen == 4
MaxUnitLen == 3
MaxInput == 2
MaxOffset == 3

(* Characters of the texts explored; UnitAlphabet adds an upper-case letter *)
(* and the newline, the two cases distance() treats specially.             *)
Alphabet == {"a", "b", " "}
UnitAlphabet == {"a", "A", "b", " ", "\n"}

Hello == <<"h", "e", "l", "l", "o">>
HeloWorld == <<"h", "e", "l", "o", " ", "w", "o", "r", "l", "d">>

WordPool == {<<"a">>, <<"A">>, <<"a", "b">>, Hello}
UnitWords == {<<"a">>, <<"A", "b">>, <<"a", " ">>, <<"b", "\n", "a">>}

Thresholds == {<<0, 1>>, <<3, 10>>, <<1, 2>>}
UnitThresholds == {<<0, 1>>, <<1, 2>>, <<1, 1>>}

RECURSIVE StringsUpTo(_, _)
StringsUpTo(alphabet, n) ==
    IF n = 0 THEN {<<>>}
    ELSE LET shorter == StringsUpTo(alphabet, n - 1)
         IN  shorter \cup {Append(s, c) : s \in {t \in shorter : Len(t) = n - 1},
                                          c \in alphabet}

Texts == StringsUpTo(Alphabet, MaxTextLen) \cup {HeloWorld}
UnitTexts == StringsUpTo(UnitAlphabet, MaxUnitLen)

----------------------------------------------------------------------------
(* Helpers on sequences and sets. *)

SeqRange(s) == {s[i] : i \in 1..Len(s)}

Min(S) == CHOOSE x \in S : \A y \in S : x <= y

(* Python's s[a:b] for 0 <= a and 0 <= b: the end is clamped to len(s). *)
Slice(s, a, b) ==
    LET e == IF b > Len(s) THEN Len(s) ELSE b
    IN  IF a >= e THEN <<>> ELSE SubSeq(s, a + 1, e)

(* sep.join(pieces) *)
RECURSIVE Join(_, _)
Join(sep, pieces) ==
    IF Len(pieces) = 0 THEN <<>>
    ELSE IF Len(pieces) = 1 THEN pieces[1]
    ELSE pieces[1] \o sep \o Join(sep, Tail(pieces))

(* Tuple order of Python on pairs of integers. *)
PairLess(x, y) == x[1] < y[1] \/ (x[1] = y[1] /\ x[2] < y[2])

(* sorted(S) for a set S of pairs of integers. *)
RECURSIVE SortedPairs(_)
SortedPairs(S) ==
    IF S = {} THEN <<>>
    ELSE LET m == CHOOSE x \in S : \A y \in S \ {x} : PairLess(x, y)
         IN  <<m>> \o SortedPairs(S \ {m})

----------------------------------------------------------------------------
(* Module-level functions. *)

intersect(x, y) == x[2] > y[1] /\ x[1] < y[2]

(* str.lower() on the characters of the model. *)
Lower(c) ==
    CASE c = "A" -> "a"
      [] c = "B" -> "b"
      [] OTHER -> c

distance(x, y) ==
    IF {x, y} \subseteq {" ", "\n"} THEN 0
    ELSE IF Lower(x) # Lower(y) THEN 1 ELSE 0

----------------------------------------------------------------------------
(* forward: the cost matrix E, the decision table D and the end columns.   *)
(* Row i of E is the sequence E[i+1]; column j of a row is its element j+1. *)

Min3(a, b, c) == Min({a, b, c})

RECURSIVE FillRow(_, _, _, _, _)
FillRow(prev, row, i, txt, qry) ==
    IF Len(row) = Len(txt) + 1 THEN row
    ELSE LET j == Len(row)
             val == Min3(prev[j + 1] + 1,
                         prev[j] + distance(qry[i], txt[j]),
                         row[j] + 1)
         IN  FillRow(prev, Append(row, val), i, txt, qry)

RECURSIVE FillRows(_, _, _)
FillRows(rows, txt, qry) ==
    IF Len(rows) = Len(qry) + 1 THEN rows
    ELSE LET i == Len(rows)
         IN  FillRows(Append(rows, FillRow(rows[i], <<i>>, i, txt, qry)), txt, qry)

CostMatrix(txt, qry) == FillRows(<<[j \in 1..(Len(txt) + 1) |-> 0]>>, txt, qry)

(* D[(i, j)]: the indices of the choices that attain the minimum. *)
Decisions(E, txt, qry) ==
    [cell \in (0..Len(qry)) \X (0..Len(txt)) |->
        LET i == cell[1]
            j == cell[2]
        IN  IF i = 0 THEN {2}
            ELSE IF j = 0 THEN {0}
            ELSE LET choices == <<E[i][j + 1] + 1,
                                  E[i][j] + distance(qry[i], txt[j]),
                                  E[i + 1][j] + 1>>
                 IN  {k \in 0..2 : choices[k + 1] = E[i + 1][j + 1]}]

(* forward with the threshold test made strict. *)
forward_strict(thr, txt, qry) ==
    LET m == Len(qry)
        n == Len(txt)
        E == CostMatrix(txt, qry)
    IN  [D |-> Decisions(E, txt, qry),
         E |-> {<<i, E[m + 1][i + 1]>> : i \in
                  {c \in 0..n : m > 0 /\ E[m + 1][c + 1] * thr[2] < thr[1] * m}}]

(* The second component pairs an end column with the raw cost E[m][i]; a   *)
(* query of length 0 divides 0.0 by 0, a nan that passes no comparison.    *)
forward(thr, txt, qry) ==
    LET m == Len(qry)
        n == Len(txt)
        E == CostMatrix(txt, qry)
    IN  [D |-> Decisions(E, txt, qry),
         E |-> {<<i, E[m + 1][i + 1]>> : i \in
                  {c \in 0..n : m > 0 /\ E[m + 1][c + 1] * thr[2] <= thr[1] * m}}]

(* backward following every move, whatever the decision table holds. *)
RECURSIVE backward_all(_, _)
backward_all(D, start) ==
    IF start[1] = 0 THEN {start}
    ELSE LET res == {<<start[1] - 1, start[2]>>}
                    \cup (IF start[2] > 0
                          THEN {<<start[1] - 1, start[2] - 1>>, <<start[1], start[2] - 1>>}
                          ELSE {})
         IN  UNION {backward_all(D, x) : x \in res}

RECURSIVE backward(_, _)
backward(D, start) ==
    IF start[1] = 0 THEN {start}
    ELSE LET res == (IF 0 \in D[start] THEN {<<start[1] - 1, start[2]>>} ELSE {})
                    \cup (IF 1 \in D[start] THEN {<<start[1] - 1, start[2] - 1>>} ELSE {})
                    \cup (IF 2 \in D[start] THEN {<<start[1], start[2] - 1>>} ELSE {})
         IN  UNION {backward(D, x) : x \in res}

(* Elements are <<<<start, end>>, cost>>, the score being cost / len(query). *)
find(thr, txt, qry) ==
    LET fw == forward(thr, txt, qry)
        m == Len(qry)
    IN  UNION {{<<<<y[2], x[1]>>, x[2]>> : y \in backward(fw.D, <<m, x[1]>>)} : x \in fw.E}

----------------------------------------------------------------------------
(* choose_positions.  sorted(..., key=itemgetter(1)) is stable over the     *)
(* iteration order of a set, so candidates of equal score are scanned in an *)
(* order the program does not fix: every such order is a possible scan.     *)
(* A candidate that intersects an accepted or protected span is rejected    *)
(* whenever its turn comes.  Among the candidates of one score that are     *)
(* still free when their turn comes, a scan accepts a set S of pairwise     *)
(* non-intersecting spans and rejects the others, each for intersecting a   *)
(* member of S; scanning S first accepts exactly S.                         *)

Blocked(position, spans) == \E c \in spans : intersect(position, c)

Accepts(tied) ==
    {S \in SUBSET tied :
        /\ \A x, y \in S : x # y => ~intersect(x, y)
        /\ \A p \in tied \ S : Blocked(p, S)}

RECURSIVE Scan(_, _, _)
Scan(candidates, chosen_positions, protected) ==
    LET live == {p \in candidates : ~Blocked(p[1], chosen_positions \cup protected)}
    IN  IF live = {} THEN {chosen_positions}
        ELSE LET best == Min({p[2] : p \in live})
                 tied == {p[1] : p \in {c \in live : c[2] = best}}
             IN  UNION {Scan({c \in live : c[2] > best}, chosen_positions \cup S, protected) :
                          S \in Accepts(tied)}

(* choose_positions checking the accepted spans only, not self.changed. *)
choose_positions_unprotected(positions, chd) ==
    {SortedPairs(S) : S \in Scan(positions, {}, {})}

(* The lists choose_positions may return, given what find returned. *)
choose_positions(positions, chd) ==
    {SortedPairs(S) : S \in Scan(positions, {}, SeqRange(chd))}

----------------------------------------------------------------------------
(* add_positions.  The loop state is [ch, cum, i]: self.changed, cum_shift  *)
(* and i_start.  Index i of a Python list is element i + 1 here.            *)

InsertAt(s, i, x) == SubSeq(s, 1, i) \o <<x>> \o SubSeq(s, i + 1, Len(s))

ShiftBy(iv, d) == <<iv[1] + d, iv[2] + d>>

(* for i in range(i, n): ... else: ...   for one position *)
RECURSIVE AddInner(_, _, _, _, _)
AddInner(st, position, shift, i, n) ==
    LET new == <<position[1] + st.cum, position[1] + st.cum + shift>>
        cum == st.cum + shift - position[2] + position[1]
    IN  IF i >= n
        THEN [ch |-> Append(st.ch, new), cum |-> cum, i |-> Len(st.ch) + 1]
        ELSE IF st.ch[i + 1][1] > position[1]
        THEN [ch |-> InsertAt(st.ch, i, new), cum |-> cum, i |-> i + 1]
        ELSE AddInner([st EXCEPT !.ch[i + 1] = ShiftBy(@, st.cum)],
                      position, shift, i + 1, n)

(* for position in positions: ... *)
RECURSIVE AddLoop(_, _, _)
AddLoop(st, positions, shift) ==
    IF positions = <<>> THEN st
    ELSE AddLoop(AddInner(st, Head(positions), shift, st.i, Len(st.ch)),
                 Tail(positions), shift)

(* for i in range(i_start, len(self.changed)): shift the rest *)
ShiftTail(st) ==
    [k \in 1..Len(st.ch) |-> IF k > st.i THEN ShiftBy(st.ch[k], st.cum) ELSE st.ch[k]]

(* The slice positions[not self.changed:] is taken after the first branch  *)
(* has appended to self.changed, so it reads the list as it is then.        *)
add_positions(chd, positions, shift) ==
    IF positions = <<>> THEN chd
    ELSE LET position == positions[1]
             st0 == IF chd = <<>>
                    THEN [ch |-> <<<<position[1], position[1] + shift>>>>,
                          cum |-> shift - position[2] + position[1],
                          i |-> 1]
                    ELSE [ch |-> chd, cum |-> 0, i |-> 0]
             first == IF st0.ch = <<>> THEN 1 ELSE 0
         IN  ShiftTail(AddLoop(st0, SubSeq(positions, first + 1, Len(positions)), shift))

----------------------------------------------------------------------------
(* correct: one round of the loop, and the final whitespace collapse.       *)

Spaced(qry) == <<" ">> \o qry \o <<" ">>

(* spaced_query.join(corrected_text[x[1]:y[0]] for x, y in zip(selectors, selectors[1:])) *)
Splice(txt, chosen_positions, qry) ==
    LET length == Len(txt)
        selectors == <<<<0, 0>>>> \o chosen_positions \o <<<<length, length>>>>
        pieces == [k \in 1..(Len(selectors) - 1) |->
                      Slice(txt, selectors[k][2], selectors[k + 1][1])]
    IN  Join(Spaced(qry), pieces)

(* correct returning the text as spliced, without the collapse. *)
CollapseNothing(s) == s

(* re.sub(' +', ' ', s) *)
RECURSIVE Collapse(_)
Collapse(s) ==
    IF s = <<>> THEN <<>>
    ELSE IF Len(s) >= 2 /\ s[1] = " " /\ s[2] = " " THEN Collapse(Tail(s))
    ELSE <<Head(s)>> \o Collapse(Tail(s))

(* Where the padded replacements lie after one round: a replacement moves  *)
(* right by the growth of every span spliced to its left, and each chosen   *)
(* span becomes the replacement " " + query + " ".                          *)
RECURSIVE Growth(_, _, _)
Growth(x, chosen_positions, shift) ==
    IF chosen_positions = <<>> THEN 0
    ELSE LET c == Head(chosen_positions)
         IN  (IF c[1] < x THEN shift - (c[2] - c[1]) ELSE 0)
             + Growth(x, Tail(chosen_positions), shift)

Replaced(rgs, chosen_positions, qry) ==
    LET shift == Len(qry) + 2
    IN  {<<r[1] + Growth(r[1], chosen_positions, shift),
           r[2] + Growth(r[1], chosen_positions, shift), r[3]>> : r \in rgs}
        \cup {<<c[1] + Growth(c[1], chosen_positions, shift),
                c[1] + Growth(c[1], chosen_positions, shift) + shift, qry>> :
                c \in SeqRange(chosen_positions)}

(* correct keeping the protected list of the call before. *)
correct_keep(chd) == chd

(* self.changed = [] at the start of correct *)
correct_init(chd) == <<>>

(* What one correct call on a new instance may return: every round from an *)
(* empty protected list, then the collapse.                                 *)
RECURSIVE CorrectRounds(_, _, _, _)
CorrectRounds(thr, ws, txt, chd) ==
    IF ws = <<>> THEN {Collapse(txt)}
    ELSE LET qry == Head(ws)
         IN  UNION {CorrectRounds(thr, Tail(ws), Splice(txt, cp, qry),
                                  add_positions(chd, cp, Len(qry) + 2)) :
                      cp \in choose_positions(find(thr, txt, qry), chd)}

correct(thr, ws, txt) == CorrectRounds(thr, ws, txt, <<>>)

----------------------------------------------------------------------------
(* load.  An input is [kind, val]: a list (a sequence of words), a set, a   *)
(* str (the lines of the file at that path) or anything else.               *)

LoadInputs ==
    [kind : {"list", "str"}, val : UNION {[1..n -> WordPool] : n \in 0..MaxInput}]
    \cup [kind : {"set"}, val : {S \in SUBSET WordPool : Cardinality(S) <= MaxInput}]
    \cup [kind : {"other"}, val : {0}]

Supported(input_words) == input_words.kind \in {"list", "set", "str"}

(* list(set(...)) *)
Distinct(input_words) ==
    IF input_words.kind = "set" THEN input_words.val ELSE SeqRange(input_words.val)

(* sorted(words, key=len, reverse=True) of a list in set order: any order  *)
(* of the distinct words by non-increasing length.                          *)
SortedByLen(S) ==
    {s \in [1..Cardinality(S) -> S] :
        /\ \A i, j \in 1..Cardinality(S) : i # j => s[i] # s[j]
        /\ \A i, j \in 1..Cardinality(S) : i < j => Len(s[i]) >= Len(s[j])}

(* load emptying the vocabulary before it looks at the type of its input. *)
load_clearing(self_words, self_changed, input_words) ==
    IF Supported(input_words)
    THEN {[words |-> s, changed |-> self_changed, raised |-> "none"] :
            s \in SortedByLen(Distinct(input_words))}
    ELSE {[words |-> <<>>, changed |-> self_changed, raised |-> "TypeError"]}

(* What load may leave in self.words and self.changed, and what it raises. *)
load(self_words, self_changed, input_words) ==
    IF Supported(input_words)
    THEN {[words |-> s, changed |-> self_changed, raised |-> "none"] :
            s \in SortedByLen(Distinct(input_words))}
    ELSE {[words |-> self_words, changed |-> self_changed, raised |-> "TypeError"]}

----------------------------------------------------------------------------
(* The corrector: construction, load, and correct one loop round at a time. *)

Init ==
    /\ threshold \in Thresholds
    /\ words = <<>>
    /\ changed = <<>>
    /\ raised = "none"
    /\ pc = "idle"
    /\ text = <<>>
    /\ corrected_text = <<>>
    /\ qi = 0
    /\ query = <<>>
    /\ found = {}
    /\ chosen = <<>>
    /\ before = <<>>
    /\ regions = {}
    /\ hit = {}
    /\ result = <<>>
    /\ stale = FALSE

Load(input_words) ==
    /\ pc = "idle"
    /\ \E o \in load(words, changed, input_words) :
         /\ words' = o.words
         /\ changed' = o.changed
         /\ raised' = o.raised
    /\ UNCHANGED <<threshold, pc, text, corrected_text, qi, query, found, chosen,
                   before, regions, hit, result, stale>>

CorrectBegin(t) ==
    /\ pc = "idle"
    /\ changed' = correct_init(changed)
    /\ text' = t
    /\ corrected_text' = t
    /\ qi' = 0
    /\ pc' = "loop"
    /\ stale' = (changed # <<>>)
    /\ UNCHANGED <<threshold, words, raised, query, found, chosen, before, regions,
                   hit, result>>

CorrectWord ==
    /\ pc = "loop"
    /\ qi < Len(words)
    /\ LET qry == words[qi + 1]
           fnd == find(threshold, corrected_text, qry)
       IN  \E chosen_positions \in choose_positions(fnd, changed) :
             /\ query' = qry
             /\ found' = fnd
             /\ chosen' = chosen_positions
             /\ before' = changed
             /\ changed' = add_positions(changed, chosen_positions, Len(qry) + 2)
             /\ corrected_text' = Splice(corrected_text, chosen_positions, qry)
             /\ hit' = {r \in regions : Blocked(<<r[1], r[2]>>, SeqRange(chosen_positions))}
             /\ regions' = Replaced(regions, chosen_positions, qry)
    /\ qi' = qi + 1
    /\ UNCHANGED <<threshold, words, raised, pc, text, result, stale>>

CorrectEnd ==
    /\ pc = "loop"
    /\ qi = Len(words)
    /\ result' = Collapse(corrected_text)
    /\ pc' = "done"
    /\ UNCHANGED <<threshold, words, changed, raised, text, corrected_text, qi, query,
                   found, chosen, before, regions, hit, stale>>

(* correct has returned: its locals are gone, self.changed stays. *)
Return ==
    /\ pc = "done"
    /\ pc' = "idle"
    /\ text' = <<>>
    /\ corrected_text' = <<>>
    /\ qi' = 0
    /\ query' = <<>>
    /\ found' = {}
    /\ chosen' = <<>>
    /\ before' = <<>>
    /\ regions' = {}
    /\ hit' = {}
    /\ result' = <<>>
    /\ stale' = FALSE
    /\ UNCHANGED <<threshold, words, changed, raised>>

Next ==
    \/ \E input_words \in LoadInputs : Load(input_words)
    \/ \E t \in Texts : CorrectBegin(t)
    \/ CorrectWord
    \/ CorrectEnd
    \/ Return

Spec == Init /\ [][Next]_vars

----------------------------------------------------------------------------
(* The methods one at a time, on arbitrary arguments: find on any text and  *)
(* query, choose_positions on its result and any protected list,            *)
(* add_positions on the chosen spans.                                       *)

Intervals == {iv \in (0..MaxOffset) \X (0..MaxOffset) : iv[1] < iv[2]}

(* Sorted ascending by start, pairwise disjoint. *)
SortedDisjoint(chd) ==
    \A i, j \in 1..Len(chd) : i < j => chd[i][1] < chd[j][1] /\ ~intersect(chd[i], chd[j])

ProtectedLists ==
    {SortedPairs(S) : S \in {T \in SUBSET Intervals : \A x, y \in T : x # y => ~intersect(x, y)}}

UnitInit ==
    /\ threshold \in UnitThresholds
    /\ words = <<>>
    /\ changed \in ProtectedLists
    /\ raised = "none"
    /\ pc = "unit"
    /\ text = <<>>
    /\ corrected_text \in UnitTexts
    /\ qi = 0
    /\ query \in UnitWords
    /\ found = {}
    /\ chosen = <<>>
    /\ before = <<>>
    /\ regions = {}
    /\ hit = {}
    /\ result = <<>>
    /\ stale = FALSE

UnitFind ==
    /\ pc = "unit"
    /\ found' = find(threshold, corrected_text, query)
    /\ pc' = "found"
    /\ UNCHANGED <<threshold, words, changed, raised, text, corrected_text, qi, query,
                   chosen, before, regions, hit, result, stale>>

UnitChoose ==
    /\ pc = "found"
    /\ chosen' \in choose_positions(found, changed)
    /\ pc' = "chosen"
    /\ UNCHANGED <<threshold, words, changed, raised, text, corrected_text, qi, query,
                   found, before, regions, hit, result, stale>>

UnitAdd ==
    /\ pc = "chosen"
    /\ before' = changed
    /\ changed' = add_positions(changed, chosen, Len(query) + 2)
    /\ pc' = "added"
    /\ UNCHANGED <<threshold, words, raised, text, corrected_text, qi, query, found,
                   chosen, regions, hit, result, stale>>

UnitNext == UnitFind \/ UnitChoose \/ UnitAdd

UnitSpec == UnitInit /\ [][UnitNext]_vars

----------------------------------------------------------------------------
(* Properties.                                                              *)

Front(s) == SubSeq(s, 1, Len(s) - 1)

(* The edit distance of two strings under the character cost distance(). *)
RECURSIVE EditDistance(_, _)
EditDistance(q, s) ==
    IF q = <<>> THEN Len(s)
    ELSE IF s = <<>> THEN Len(q)
    ELSE Min3(EditDistance(Front(q), s) + 1,
              EditDistance(q, Front(s)) + 1,
              EditDistance(Front(q), Front(s)) + distance(q[Len(q)], s[Len(s)]))

(* The least edit distance between qry and a substring of txt. *)
BestCost(txt, qry) ==
    Min({EditDistance(qry, Slice(txt, s, e)) : s \in 0..Len(txt), e \in 0..Len(txt)})

(* The intervals the list should hold after one round, by the rule of C8. *)
ExpectedIntervals(bef, chosen_positions, shift) ==
    {ShiftBy(b, Growth(b[1], chosen_positions, shift)) : b \in SeqRange(bef)}
    \cup {<<c[1] + Growth(c[1], chosen_positions, shift),
            c[1] + Growth(c[1], chosen_positions, shift) + shift>> :
            c \in SeqRange(chosen_positions)}

(* C1: during one correct call no span chosen for a later word intersects   *)
(* the region of an earlier replacement, so every padded word spliced in is *)
(* still there, contiguous and unaltered, until the final collapse.         *)
C1_ReplacementsKept ==
    /\ hit = {}
    /\ pc \in {"loop", "done"} =>
         \A r \in regions : Slice(corrected_text, r[1], r[2]) = Spaced(r[3])

(* C2: add_positions leaves self.changed ascending by start and pairwise    *)
(* disjoint whenever it was so before (empty included) and the positions    *)
(* are ascending, pairwise non-intersecting and clear of self.changed.      *)
C2_SortedDisjointAfter ==
    (/\ pc = "added"
     /\ SortedDisjoint(before)
     /\ \A i, j \in 1..Len(chosen) :
            i < j => chosen[i][1] <= chosen[j][1] /\ ~intersect(chosen[i], chosen[j])
     /\ \A i \in 1..Len(chosen) : ~Blocked(chosen[i], SeqRange(before)))
    => \A i, j \in 1..Len(changed) :
            i < j => changed[i][1] <= changed[j][1] /\ ~intersect(changed[i], changed[j])

(* C3: the spans one choose_positions call returns are pairwise             *)
(* non-intersecting (a.start < b.end and b.start < a.end never holds) and   *)
(* none intersects an interval of self.changed.                             *)
C3_ChosenDisjoint ==
    pc = "chosen" =>
        /\ \A i, j \in 1..Len(chosen) :
              i # j => ~(chosen[i][1] < chosen[j][2] /\ chosen[j][1] < chosen[i][2])
        /\ \A i \in 1..Len(chosen), k \in 1..Len(changed) :
              ~(chosen[i][1] < changed[k][2] /\ changed[k][1] < chosen[i][2])

C3_Witness ==
    /\ pc = "chosen"
    /\ Len(chosen) >= 2
    /\ \E f \in found : Blocked(f[1], SeqRange(changed))
    /\ \E f \in found : ~Blocked(f[1], SeqRange(changed)) /\ f[1] \notin SeqRange(chosen)

(* C4: if the least edit distance d between the query and a substring of    *)
(* the text has d / len(query) <= threshold, find returns a span whose      *)
(* score is d / len(query).                                                 *)
C4_FindReachesBest ==
    pc = "found" =>
        LET d == BestCost(corrected_text, query)
        IN  d * threshold[2] <= threshold[1] * Len(query) => \E f \in found : f[2] = d

C4_Witness ==
    /\ pc = "found"
    /\ threshold = <<1, 2>>
    /\ Len(query) = 2
    /\ BestCost(corrected_text, query) = 1
    /\ \E f \in found : f[2] = 1

(* The scenario of C5 has run to its end. *)
C5_Scenario ==
    /\ pc = "done"
    /\ threshold = <<3, 10>>
    /\ words = <<Hello>>
    /\ text = HeloWorld

(* C5: with vocabulary {"hello"} and threshold 0.3, correct("helo world")   *)
(* returns exactly "hello world".                                           *)
C5_HelloWorld == C5_Scenario => result = Hello \o <<" ", "w", "o", "r", "l", "d">>

(* C5 as amended: the call returns " hello world", the replacement keeping  *)
(* the space it was padded with on the left.                                *)
C5_PaddedHelloWorld ==
    C5_Scenario => result = <<" ">> \o Hello \o <<" ", "w", "o", "r", "l", "d">>

C5_Witness == C5_Scenario /\ chosen = <<<<0, 4>>>> /\ found = {<<<<0, 4>>, 1>>}

PlainWord(w) == w # <<>> /\ \A i \in 1..Len(w) : Lower(w[i]) = w[i] /\ w[i] \notin {" ", "\n"}

RECURSIVE ExactText(_, _)
ExactText(txt, ws) ==
    \/ txt \in ws
    \/ \E w \in ws :
         /\ Len(txt) > Len(w) + 1
         /\ SubSeq(txt, 1, Len(w)) = w
         /\ txt[Len(w) + 1] = " "
         /\ ExactText(SubSeq(txt, Len(w) + 2, Len(txt)), ws)

NonSpace(s) == SelectSeq(s, LAMBDA c : c # " ")

(* C6: a text made only of exact occurrences of vocabulary words separated  *)
(* by single spaces comes back with every occurrence between single spaces  *)
(* and its non-space characters unchanged.  Stated at threshold 0 for words *)
(* of lower-case letters, where a match of distance 0 is an exact           *)
(* occurrence.                                                              *)
C6_ExactKept ==
    (/\ pc = "done"
     /\ threshold[1] = 0
     /\ \A w \in SeqRange(words) : PlainWord(w)
     /\ ExactText(text, SeqRange(words)))
    => /\ NonSpace(result) = NonSpace(text)
       /\ result = <<" ">> \o text \o <<" ">>

(* C7: wherever load can be called, load of anything but a list, a set or  *)
(* a str raises TypeError and leaves self.words and self.changed as they    *)
(* were; a load that succeeds leaves each distinct input word once, by      *)
(* non-increasing length.                                                   *)
C7_LoadContract ==
    pc = "idle" =>
        \A input_words \in LoadInputs : \A o \in load(words, changed, input_words) :
            /\ o.changed = changed
            /\ IF input_words.kind \in {"list", "set", "str"}
               THEN /\ o.raised = "none"
                    /\ SeqRange(o.words) = Distinct(input_words)
                    /\ Len(o.words) = Cardinality(Distinct(input_words))
                    /\ \A i, j \in 1..Len(o.words) :
                          i < j => Len(o.words[i]) >= Len(o.words[j])
               ELSE o.raised = "TypeError" /\ o.words = words

(* A correct call completed with the vocabulary loaded before a failed load. *)
C7_Witness ==
    /\ raised = "TypeError"
    /\ pc = "done"
    /\ Len(words) = 2
    /\ qi = 2
    /\ query = words[2]

(* C8: after each round self.changed holds exactly the intervals of the new *)
(* text occupied by the replacements made so far: one interval              *)
(* (s + c, s + c + shift) per newly chosen span, every earlier interval     *)
(* moved by the growth of the chosen spans to its left, and nothing else.   *)
C8_ChangedExact ==
    (pc = "loop" /\ qi > 0) =>
        /\ SeqRange(changed) = ExpectedIntervals(before, chosen, Len(query) + 2)
        /\ Len(changed) = Len(before) + Len(chosen)
        /\ SeqRange(changed) = {<<r[1], r[2]>> : r \in regions}

(* C9: every ((start, end), score) of find is a match: the offsets lie in   *)
(* the text in order, the score is within the threshold, and the edit       *)
(* distance between the query and text[start:end] is score * len(query).    *)
C9_FindGenuine ==
    pc = "found" =>
        \A f \in found :
            /\ 0 <= f[1][1] /\ f[1][1] <= f[1][2] /\ f[1][2] <= Len(corrected_text)
            /\ f[2] * threshold[2] <= threshold[1] * Len(query)
            /\ EditDistance(query, Slice(corrected_text, f[1][1], f[1][2])) = f[2]

(* Two optimal alignments that end in the same column and start apart. *)
C9_Witness ==
    /\ pc = "found"
    /\ \E f, g \in found : f[1][2] = g[1][2] /\ f[1][1] < g[1][1] /\ f[2] > 0

(* C10: whatever correct calls came before, correct starts from an empty    *)
(* protected list and returns what a new instance with the same vocabulary  *)
(* and threshold returns for the same text.                                 *)
C10_FreshResult ==
    /\ (pc = "loop" /\ qi = 0) => changed = <<>>
    /\ pc = "done" => result \in correct(threshold, words, text)

(* A call that replaced something, entered with intervals of an earlier call. *)
C10_Witness ==
    /\ pc = "done"
    /\ stale
    /\ changed # <<>>
    /\ result # text

====
